---- MODULE Spec2Model ----
(***************************************************************************)
(* Model of sse_solver (src/sse_solver/src/lib.rs): the Euler-Maruyama     *)
(* integrator of the stochastic Schroedinger equation.                     *)
(*                                                                         *)
(* Numbers.  The program computes on Complex<f64>.  The model computes     *)
(* exactly on the values the program's inputs below generate:              *)
(*   - a complex number is a pair <<re, im>> of integers;                  *)
(*   - a state vector is a record [v, num, den, nan] standing for          *)
(*         sqrt(num/den) * v                                               *)
(*     with v a vector of Gaussian integers whose parts have gcd 1 and     *)
(*     num/den a fraction in lowest terms (the square of the positive real *)
(*     scale).  The square root is needed because solve divides by the L2  *)
(*     norm.  nan = TRUE is the vector whose entries are all NaN (0/0).    *)
(*   - inside one micro-step on state s every quantity of the code is a    *)
(*     multiple of 1/Scale(s) (scalars) or sqrt(num/den)/Scale(s)          *)
(*     (vectors), Scale(s) = 2*den*den, so the model holds the integer     *)
(*     numerators ("scaled" values).                                       *)
(***************************************************************************)
EXTENDS Integers, Sequences, FiniteSets, TLC

\* ------------------------------------------------------------------ bounds
\* largest n (rows requested) and step (micro-steps per row) given to solve
MaxN == 3
MaxStep == 2
\* largest number of noise sources of an ensemble
MaxSources == 2
\* largest |re|, |im| of a component of v, and largest num, den, of a state
\* vector the model follows; a run whose next state exceeds them is cut
MaxMag == 3
MaxDen == 10

\* ------------------------------------------------------- complex arithmetic
Abs(x) == IF x < 0 THEN -x ELSE x

Min(a, b) == IF a < b THEN a ELSE b

RECURSIVE Gcd(_, _)
Gcd(a, b) == IF b = 0 THEN Abs(a) ELSE Gcd(b, a % Abs(b))

CZero == <<0, 0>>

COne == <<1, 0>>

CI == <<0, 1>>

CAdd(x, y) == <<x[1] + y[1], x[2] + y[2]>>

CSub(x, y) == <<x[1] - y[1], x[2] - y[2]>>

CMul(x, y) == <<x[1] * y[1] - x[2] * y[2], x[1] * y[2] + x[2] * y[1]>>

CConj(x) == <<x[1], -x[2]>>

CReal(r) == <<r, 0>>

\* Complex::norm_sqr
NormSqr(x) == x[1] * x[1] + x[2] * x[2]

\* ---------------------------------------------------------------- vectors
\* vectors are sequences, built entry by entry
RECURSIVE Zeros(_)
Zeros(d) == IF d = 0 THEN <<>> ELSE Append(Zeros(d - 1), CZero)

RECURSIVE VAdd(_, _)
VAdd(u, w) ==
    IF u = <<>> THEN <<>> ELSE <<CAdd(Head(u), Head(w))>> \o VAdd(Tail(u), Tail(w))

RECURSIVE VSub(_, _)
VSub(u, w) ==
    IF u = <<>> THEN <<>> ELSE <<CSub(Head(u), Head(w))>> \o VSub(Tail(u), Tail(w))

\* vector times complex scalar
RECURSIVE VScale(_, _)
VScale(u, c) == IF u = <<>> THEN <<>> ELSE <<CMul(Head(u), c)>> \o VScale(Tail(u), c)

RECURSIVE VConj(_)
VConj(u) == IF u = <<>> THEN <<>> ELSE <<CConj(Head(u))>> \o VConj(Tail(u))

RECURSIVE CSum(_)
CSum(s) == IF s = <<>> THEN CZero ELSE CAdd(Head(s), CSum(Tail(s)))

\* sum_k a[k] * b[k], no conjugation (ndarray's dot of two vectors)
RECURSIVE VDot(_, _)
VDot(a, b) ==
    IF a = <<>> THEN CZero ELSE CAdd(CMul(Head(a), Head(b)), VDot(Tail(a), Tail(b)))

\* sum of |x|^2 over the entries: the square of norm_l2
RECURSIVE VNormSqr(_)
VNormSqr(u) == IF u = <<>> THEN 0 ELSE NormSqr(Head(u)) + VNormSqr(Tail(u))

\* gcd of all real and imaginary parts
RECURSIVE VGcd(_)
VGcd(u) == IF u = <<>> THEN 0 ELSE Gcd(Gcd(VGcd(Tail(u)), Head(u)[1]), Head(u)[2])

RECURSIVE VDiv(_, _)
VDiv(u, g) ==
    IF u = <<>> THEN <<>>
    ELSE <<<<Head(u)[1] \div g, Head(u)[2] \div g>>>> \o VDiv(Tail(u), g)

Max(a, b) == IF a > b THEN a ELSE b

\* largest |re|, |im| over the entries
RECURSIVE VMax(_)
VMax(u) ==
    IF u = <<>> THEN 0
    ELSE Max(Max(Abs(Head(u)[1]), Abs(Head(u)[2])), VMax(Tail(u)))

\* --------------------------------------------------------- dense matrices
\* a matrix is a sequence of rows; MatVec is Array2::dot(Array1)
RECURSIVE MatVec(_, _)
MatVec(m, u) == IF m = <<>> THEN <<>> ELSE <<VDot(Head(m), u)>> \o MatVec(Tail(m), u)

NCols(m) == IF Len(m) = 0 THEN 0 ELSE Len(m[1])

\* o.map(Complex::conj).reversed_axes()
ConjTranspose(m) == [j \in 1..NCols(m) |-> [i \in 1..Len(m) |-> CConj(m[i][j])]]

Transpose(m) == [j \in 1..NCols(m) |-> [i \in 1..Len(m) |-> m[i][j]]]

\* --------------------------------------------------------- banded matrices
\* BandedArray: the diagonals of wrapped offset o hold the entries
\* (i, (i + o) mod cols); only diagonals with a nonzero entry are stored.
DiagonalOf(m, o) == [i \in 1..Len(m) |-> m[i][((i - 1 + o) % NCols(m)) + 1]]

RECURSIVE OffsetsFrom(_, _)
OffsetsFrom(m, o) ==
    IF o >= NCols(m) THEN <<>>
    ELSE IF DiagonalOf(m, o) = Zeros(Len(m)) THEN OffsetsFrom(m, o + 1)
    ELSE <<o>> \o OffsetsFrom(m, o + 1)

\* BandedArray::from_dense
BandedFromDense(m) ==
    LET offsets == OffsetsFrom(m, 0)
    IN [kind |-> "banded", shape |-> <<Len(m), NCols(m)>>, offsets |-> offsets,
        diagonals |-> [k \in 1..Len(offsets) |-> DiagonalOf(m, offsets[k])]]

\* the product that reads the column without wrapping the offset
BandedDotNoWrap(b, u) ==
    [i \in 1..b.shape[1] |->
        CSum([k \in 1..Len(b.offsets) |->
                IF i + b.offsets[k] <= b.shape[2]
                THEN CMul(b.diagonals[k][i], u[i + b.offsets[k]])
                ELSE CZero])]

\* BandedArray::dot: row i takes diagonal k's entry times the state at the
\* diagonal's column
BandedDot(b, u) ==
    [i \in 1..b.shape[1] |->
        CSum([k \in 1..Len(b.offsets) |->
                CMul(b.diagonals[k][i], u[((i - 1 + b.offsets[k]) % b.shape[2]) + 1])])]

\* BandedArray::transpose: a view on the same storage
BandedTranspose(b) == [b EXCEPT !.kind = "transposed_banded"]

\* TransposedBandedArray::dot: entry (i, j) of the original contributes to
\* output j
TransposedBandedDot(b, u) ==
    [j \in 1..b.shape[2] |->
        CSum([k \in 1..Len(b.offsets) |->
                CSum([i \in 1..b.shape[1] |->
                        IF ((i - 1 + b.offsets[k]) % b.shape[2]) + 1 = j
                        THEN CMul(b.diagonals[k][i], u[i])
                        ELSE CZero])])]

\* ---------------------------------------------------------------- tensors
\* The operator-apply contract (trait Tensor = Dot<Array1>): a tensor is a
\* tagged record, TensorDot dispatches on the tag.
Dense(m) == [kind |-> "dense", m |-> m]

\* FactorizedArray::from_bra_ket: amplitude * |ket><bra|
Factorized(a, b, k) == [kind |-> "factorized", amplitude |-> a, bra |-> b, ket |-> k]

\* apply: ket * (bra . state) * amplitude
FactorizedDot(f, u) == VScale(f.ket, CMul(VDot(f.bra, u), f.amplitude))

\* conjugate every entry
FactorizedConj(f) == Factorized(CConj(f.amplitude), VConj(f.bra), VConj(f.ket))

\* swap bra and ket
FactorizedTranspose(f) == Factorized(f.amplitude, f.ket, f.bra)

TensorDot(t, u) ==
    CASE t.kind = "dense" -> MatVec(t.m, u)
      [] t.kind = "factorized" -> FactorizedDot(t, u)
      [] t.kind = "banded" -> BandedDot(t, u)
      [] t.kind = "transposed_banded" -> TransposedBandedDot(t, u)

\* ------------------------------------------------------ noise construction
FullNoiseSource(op, conj_op) == [operator |-> op, conjugate_operator |-> conj_op]

\* from_operators with the adjoint transposed but not conjugated
from_operators_transpose_only(operators) ==
    [k \in 1..Len(operators) |->
        FullNoiseSource(Dense(operators[k]), Dense(Transpose(operators[k])))]

\* FullNoise::from_operators: one source per matrix of the stack, the adjoint
\* materialised as the conjugate transpose
from_operators(operators) ==
    [k \in 1..Len(operators) |->
        FullNoiseSource(Dense(operators[k]), Dense(ConjTranspose(operators[k])))]

\* FullNoise::from_bra_ket: amplitudes.zip(bra rows.zip(ket rows)); zip stops
\* at the shortest of the three
from_bra_ket(amplitudes, bra, ket) ==
    [k \in 1..Min(Len(amplitudes), Min(Len(bra), Len(ket))) |->
        LET operator == Factorized(amplitudes[k], bra[k], ket[k])
        IN FullNoiseSource(operator, FactorizedTranspose(FactorizedConj(operator)))]

\* ------------------------------------------------------------ state vectors
StateVec(v, num, den) == [v |-> v, num |-> num, den |-> den, nan |-> FALSE]

\* the vector whose entries are all NaN
NaNVec(d) == [v |-> Zeros(d), num |-> 1, den |-> 1, nan |-> TRUE]

Dim(s) == Len(s.v)

\* common denominator of the quantities of one micro-step on s
Scale(s) == 2 * s.den * s.den

\* a scaled vector w stands for sqrt(num/den)/Scale(s) * w.  The state itself:
Scaled(s) == VScale(s.v, CReal(Scale(s)))

\* whether sqrt(num/den)/Scale(s) * w is within MaxMag, MaxDen
Representable(w, s) ==
    IF s.nan \/ w = Zeros(Len(w)) THEN TRUE
    ELSE LET g == VGcd(w)
             g1 == Gcd(g, Scale(s))
         IN IF VMax(w) \div g > MaxMag \/ g \div g1 > MaxDen THEN FALSE
            ELSE LET nu == s.num * (g \div g1) * (g \div g1)
                     de == s.den * (Scale(s) \div g1) * (Scale(s) \div g1)
                     h == Gcd(nu, de)
                 IN nu \div h <= MaxDen /\ de \div h <= MaxDen

\* the state vector sqrt(num/den)/Scale(s) * w in lowest terms.  Any
\* arithmetic on NaN entries gives NaN entries.
MkState(w, s) ==
    IF s.nan THEN NaNVec(Len(w))
    ELSE IF w = Zeros(Len(w)) THEN StateVec(w, 1, 1)
    ELSE LET g == VGcd(w)
             g1 == Gcd(g, Scale(s))
             nu == s.num * (g \div g1) * (g \div g1)
             de == s.den * (Scale(s) \div g1) * (Scale(s) \div g1)
             h == Gcd(nu, de)
         IN StateVec(VDiv(w, g), nu \div h, de \div h)

\* the square of norm_l2, as a fraction <<numerator, denominator>>
NormL2Sqr(s) == <<s.num * VNormSqr(s.v), s.den>>

\* ------------------------------------------------------------- one micro-step
\* SSESystem::coherent: hamiltonian.dot(state) * Complex { re: 0, im: -dt }
SystemCoherent(system, s, dt) ==
    VScale(TensorDot(system.hamiltonian, s.v), <<0, -dt * Scale(s)>>)

\* EulerStep { diagonal_amplitude: 0, off_diagonal: zeros }
EulerStepZero(d) == [diagonal_amplitude |-> CZero, off_diagonal |-> Zeros(d)]

\* integer square root of a perfect square (f64::sqrt on the dt of DtSet)
Sqrt(x) == CHOOSE r \in 0..x : r * r = x

\* accumulate_euler_step with the sample not scaled by sqrt(dt)
AccumulateUnscaledDraw(source, euler, s, dt, z) ==
    LET dw == z
        l_state == TensorDot(source.operator, s.v)
        l_dagger_l_state == TensorDot(source.conjugate_operator, l_state)
        ex == VDot(VConj(s.v), l_state)
        two_nd == 2 * s.num * s.den
    IN [off_diagonal |->
            VAdd(euler.off_diagonal,
                 VSub(VScale(l_state,
                             CAdd(CMul(dw, CReal(Scale(s))),
                                  CMul(CConj(ex), CReal(two_nd * dt)))),
                      VScale(l_dagger_l_state, CReal(s.den * s.den * dt)))),
        diagonal_amplitude |->
            CSub(euler.diagonal_amplitude,
                 CAdd(CReal(s.num * s.num * NormSqr(ex) * dt),
                      CMul(CMul(ex, dw), CReal(two_nd))))]

\* FullNoiseSource::accumulate_euler_step with the sample z of
\* StandardComplexNormal.  With ex = sum conj(v[i]) * (L v)[i] the code's
\* expectation is (num/den) * ex, so times Scale(s) = 2 den^2:
\*   dw + dt*conj(expectation)          ->  2 den^2 dw + 2 num den dt conj(ex)
\*   dt * 0.5                            ->  den^2 dt
\*   0.5*expectation.norm_sqr()*dt       ->  num^2 |ex|^2 dt
\*   expectation * dw                    ->  2 num den ex dw
AccumulateEulerStep(source, euler, s, dt, z) ==
    LET dw == CMul(z, CReal(Sqrt(dt)))
        l_state == TensorDot(source.operator, s.v)
        l_dagger_l_state == TensorDot(source.conjugate_operator, l_state)
        ex == VDot(VConj(s.v), l_state)
        two_nd == 2 * s.num * s.den
    IN [off_diagonal |->
            VAdd(euler.off_diagonal,
                 VSub(VScale(l_state,
                             CAdd(CMul(dw, CReal(Scale(s))),
                                  CMul(CConj(ex), CReal(two_nd * dt)))),
                      VScale(l_dagger_l_state, CReal(s.den * s.den * dt)))),
        diagonal_amplitude |->
            CSub(euler.diagonal_amplitude,
                 CAdd(CReal(s.num * s.num * NormSqr(ex) * dt),
                      CMul(CMul(ex, dw), CReal(two_nd))))]

\* resolve without adding the state back
ResolveNoIdentity(euler, s) ==
    VAdd(euler.off_diagonal, VScale(s.v, euler.diagonal_amplitude))

\* EulerStep::resolve: off_diagonal + (diagonal_amplitude + 1) * state
Resolve(euler, s) ==
    VAdd(euler.off_diagonal,
         VScale(s.v, CAdd(euler.diagonal_amplitude, CReal(Scale(s)))))

\* EulerSolver::step, after the noise loop: out = coherent; out += stochastic
StepOut(coh, stochastic) == VAdd(coh, stochastic)

\* FullNoise::euler_step as a function of the samples zs, one per source
RECURSIVE EulerFold(_, _, _, _, _, _)
EulerFold(noise, zs, k, euler, s, dt) ==
    IF k > Len(noise) THEN euler
    ELSE EulerFold(noise, zs, k + 1,
                   AccumulateEulerStep(noise[k], euler, s, dt, zs[k]), s, dt)

euler_step(noise, s, dt, zs) ==
    Resolve(EulerFold(noise, zs, 1, EulerStepZero(Dim(s)), s, dt), s)

\* division by the squared norm instead of the norm
RenormalizeByNormSqr(s) ==
    IF s.nan \/ VNormSqr(s.v) = 0 THEN NaNVec(Dim(s))
    ELSE LET nu == s.den
             de == s.num * VNormSqr(s.v) * VNormSqr(s.v)
             h == Gcd(nu, de)
         IN StateVec(s.v, nu \div h, de \div h)

\* current /= Complex { re: current.norm_l2(), im: 0 }: the scale squared is
\* divided by the norm squared; a zero vector gives 0/0 in every entry
Renormalize(s) ==
    IF s.nan \/ VNormSqr(s.v) = 0 THEN NaNVec(Dim(s))
    ELSE LET nn == NormL2Sqr(s)
             nu == s.num * nn[2]
             de == s.den * nn[1]
             h == Gcd(nu, de)
         IN StateVec(s.v, nu \div h, de \div h)

\* ------------------------------------------------------------------ inputs
\* sequences over S of length at most k
SeqsUpTo(S, k) == UNION {[1..m -> S] : m \in 0..k}

Dims == {1, 2}

\* caller-supplied initial states: basis state, unnormalised states, a
\* normalised superposition (1, i)/sqrt(2), the zero vector
InitialStates(d) ==
    IF d = 1 THEN {StateVec(<<COne>>, 1, 1), StateVec(<<COne>>, 4, 1), StateVec(<<CZero>>, 1, 1)}
    ELSE {StateVec(<<COne, CZero>>, 1, 1), StateVec(<<COne, COne>>, 1, 1),
          StateVec(<<COne, CI>>, 1, 2), StateVec(<<CZero, CZero>>, 1, 1)}

\* Hamiltonians (any complex matrix is accepted, Hermitian or not)
Hamiltonians(d) ==
    IF d = 1 THEN {<<<<CZero>>>>, <<<<COne>>>>, <<<<CConj(CI)>>>>}
    ELSE {<<<<CZero, CZero>>, <<CZero, CZero>>>>,
          <<<<CZero, COne>>, <<COne, CZero>>>>,
          <<<<CConj(CI), CZero>>, <<CZero, CConj(CI)>>>>}

\* noise coupling operators
Operators(d) ==
    IF d = 1 THEN {<<<<COne>>>>, <<<<CI>>>>}
    ELSE {<<<<CZero, COne>>, <<CZero, CZero>>>>,
          <<<<CZero, CZero>>, <<CZero, CI>>>>}

\* ensembles: dense stacks through from_operators, rank-one operators
\* |e_1><e_d| through from_bra_ket
Ensembles(d) ==
    {from_operators(ops) : ops \in SeqsUpTo(Operators(d), MaxSources)}
    \cup {from_bra_ket([k \in 1..m |-> CI],
                       [k \in 1..m |-> [i \in 1..d |-> IF i = d THEN COne ELSE CZero]],
                       [k \in 1..m |-> [i \in 1..d |-> IF i = 1 THEN COne ELSE CZero]])
            : m \in 1..MaxSources}

\* micro time steps (perfect squares, so that sqrt(dt) is exact)
DtSet == {0, 1, 4}

\* samples of StandardComplexNormal
DrawSet == {CZero, COne, CI}

\* ------------------------------------------------------------------- state
VARIABLES
    initial_state, system, n, step, dt, \* the arguments of Solver::solve
    pc,                                 \* position in solve / integrate / step
    out, current, current_t, step_n,    \* solve's locals
    int_out, int_t, int_n,              \* integrate's out, current_t, _n
    coherent, euler, src,               \* step's out, euler_step's EulerStep, source index
    integrations, micro, draws,         \* history: integrate calls, micro-steps completed, samples taken
    last,                               \* history: the last completed micro-step
    op_pc, op_in, op_res                \* the operator checks: position, inputs, results

vars == <<initial_state, system, n, step, dt, pc, out, current, current_t, step_n,
          int_out, int_t, int_n, coherent, euler, src, integrations, micro, draws, last,
          op_pc, op_in, op_res>>

args == <<initial_state, system, n, step, dt>>

ops == <<op_pc, op_in, op_res>>

NoStep == [state |-> NaNVec(0), coherent |-> <<>>, euler |-> EulerStepZero(0),
           stochastic |-> <<>>, result |-> <<>>]

\* entry of Solver::solve, lines 56-58
Init ==
    /\ \E d \in Dims :
          /\ initial_state \in InitialStates(d)
          /\ \E h \in Hamiltonians(d), noise \in Ensembles(d) :
                system = [hamiltonian |-> Dense(h), noise |-> noise]
    /\ n \in 0..MaxN
    /\ step \in 0..MaxStep
    /\ dt \in DtSet
    /\ pc = "solve"
    /\ out = <<>>
    /\ current = initial_state
    /\ current_t = 0
    /\ step_n = 1
    /\ int_out = initial_state
    /\ int_t = 0
    /\ int_n = 0
    /\ coherent = <<>>
    /\ euler = EulerStepZero(0)
    /\ src = 0
    /\ integrations = 0
    /\ micro = 0
    /\ draws = <<>>
    /\ last = NoStep
    /\ op_pc = "off"
    /\ op_in = <<>>
    /\ op_res = <<>>

\* the loop of solve over 1..=n
SolveLoopInclusive ==
    /\ pc = "solve"
    /\ step_n <= n
    /\ out' = Append(out, current)
    /\ int_out' = current
    /\ int_t' = current_t
    /\ int_n' = 0
    /\ integrations' = integrations + 1
    /\ pc' = "integrate"
    /\ UNCHANGED <<args, ops, current, current_t, step_n, coherent, euler, src, micro, draws, last>>

\* the loop of solve recording the renormalized state
SolveLoopPushNormalized ==
    /\ pc = "solve"
    /\ step_n < n
    /\ out' = Append(out, Renormalize(current))
    /\ int_out' = current
    /\ int_t' = current_t
    /\ int_n' = 0
    /\ integrations' = integrations + 1
    /\ pc' = "integrate"
    /\ UNCHANGED <<args, ops, current, current_t, step_n, coherent, euler, src, micro, draws, last>>

\* solve, `for _step_n in 1..n` body entered: push the row, call integrate
SolveLoop ==
    /\ pc = "solve"
    /\ step_n < n
    /\ out' = Append(out, current)
    /\ int_out' = current
    /\ int_t' = current_t
    /\ int_n' = 0
    /\ integrations' = integrations + 1
    /\ pc' = "integrate"
    /\ UNCHANGED <<args, ops, current, current_t, step_n, coherent, euler, src, micro, draws, last>>

\* the loop of integrate over 0..=n_step
IntegrateLoopInclusive ==
    /\ pc = "integrate"
    /\ int_n <= step
    /\ coherent' = SystemCoherent(system, int_out, dt)
    /\ euler' = EulerStepZero(Dim(int_out))
    /\ src' = 1
    /\ pc' = "euler_step"
    /\ UNCHANGED <<args, ops, out, current, current_t, step_n, int_out, int_t, int_n,
                   integrations, micro, draws, last>>

\* integrate, `for _n in 0..n_step` body entered: call step, which computes
\* system.coherent and enters FullNoise::euler_step
IntegrateLoop ==
    /\ pc = "integrate"
    /\ int_n < step
    /\ coherent' = SystemCoherent(system, int_out, dt)
    /\ euler' = EulerStepZero(Dim(int_out))
    /\ src' = 1
    /\ pc' = "euler_step"
    /\ UNCHANGED <<args, ops, out, current, current_t, step_n, int_out, int_t, int_n,
                   integrations, micro, draws, last>>

\* euler_step, `for source in &self.0` body: one sample, one accumulation
NoiseLoop ==
    /\ pc = "euler_step"
    /\ src <= Len(system.noise)
    /\ \E z \in DrawSet :
          euler' = AccumulateEulerStep(system.noise[src], euler, int_out, dt, z)
    /\ draws' = Append(draws, [micro |-> micro, source |-> src])
    /\ src' = src + 1
    /\ UNCHANGED <<args, ops, pc, out, current, current_t, step_n, int_out, int_t, int_n,
                   coherent, integrations, micro, last>>

\* euler_step resolves, step adds it to the coherent term and returns to
\* integrate, which advances current_t
StepReturn ==
    /\ pc = "euler_step"
    /\ src > Len(system.noise)
    /\ LET stochastic == Resolve(euler, int_out)
           w == StepOut(coherent, stochastic)
       IN /\ Representable(w, int_out)
          /\ int_out' = MkState(w, int_out)
          /\ last' = [state |-> int_out, coherent |-> coherent, euler |-> euler,
                      stochastic |-> stochastic, result |-> w]
    /\ int_t' = int_t + dt
    /\ int_n' = int_n + 1
    /\ micro' = micro + 1
    /\ pc' = "integrate"
    /\ UNCHANGED <<args, ops, out, current, current_t, step_n, coherent, euler, src,
                   integrations, draws>>

\* integrate returns; solve advances current_t and divides by the norm
IntegrateReturn ==
    /\ pc = "integrate"
    /\ int_n >= step
    /\ LET r == Renormalize(int_out)
       IN /\ r.den <= MaxDen
          /\ current' = r
    /\ current_t' = current_t + dt * step
    /\ step_n' = step_n + 1
    /\ pc' = "solve"
    /\ UNCHANGED <<args, ops, out, int_out, int_t, int_n, coherent, euler, src,
                   integrations, micro, draws, last>>

\* solve returning an empty trajectory for n = 0
SolveReturnEmptyForZero ==
    /\ pc = "solve"
    /\ step_n >= n
    /\ out' = IF n = 0 THEN out ELSE Append(out, current)
    /\ pc' = "done"
    /\ UNCHANGED <<args, ops, current, current_t, step_n, int_out, int_t, int_n,
                   coherent, euler, src, integrations, micro, draws, last>>

\* solve, after the loop: push the last row and return
SolveReturn ==
    /\ pc = "solve"
    /\ step_n >= n
    /\ out' = Append(out, current)
    /\ pc' = "done"
    /\ UNCHANGED <<args, ops, current, current_t, step_n, int_out, int_t, int_n,
                   coherent, euler, src, integrations, micro, draws, last>>

Next ==
    \/ SolveLoop
    \/ IntegrateLoop
    \/ NoiseLoop
    \/ StepReturn
    \/ IntegrateReturn
    \/ SolveReturn

Spec == Init /\ [][Next]_vars

\* ------------------------------------------------------------ solve: claims
\* L2 norm exactly 1
Unit(s) == ~s.nan /\ s.num * VNormSqr(s.v) = s.den

ZeroOrNaN(s) == s.nan \/ VNormSqr(s.v) = 0

Rows == 1..Len(out)

\* C1: for n >= 1 solve returns exactly n rows, each of the dimension of the
\* initial state; n = 1 returns the initial state alone, integrate not called.
C1_TrajectoryShape ==
    (pc = "done" /\ n >= 1) =>
        /\ Len(out) = n
        /\ \A r \in Rows : Dim(out[r]) = Dim(initial_state)
        /\ n = 1 => (out = <<initial_state>> /\ integrations = 0 /\ micro = 0)

C1_Witness ==
    /\ pc = "done" /\ n = 3 /\ Len(out) = 3 /\ Dim(initial_state) = 2
    /\ dt # 0 /\ micro = 4 /\ out[3] # out[1] /\ ~out[3].nan

\* C2: row 0 of the trajectory is the caller's initial state, untouched by
\* renormalization and by every later macro-step.
C2_InitialRow == Len(out) >= 1 => out[1] = initial_state

C2_Witness ==
    /\ pc = "done" /\ n >= 2 /\ dt # 0 /\ micro >= 1
    /\ ~Unit(initial_state) /\ out[1] = initial_state
    /\ out[2] # Renormalize(initial_state)

\* C3 as stated: with dt = 0 every row equals the initial state, whatever the
\* initial state.
C3_ZeroTimestep ==
    (pc = "done" /\ dt = 0) => \A r \in Rows : out[r] = initial_state

\* C3 amended: with dt = 0 every row equals the initial state when the initial
\* state has L2 norm 1 or at most one row is requested.
C3_ZeroTimestepUnitNorm ==
    (pc = "done" /\ dt = 0 /\ (n <= 1 \/ Unit(initial_state))) =>
        \A r \in Rows : out[r] = initial_state

C3_Witness ==
    /\ pc = "done" /\ dt = 0 /\ n = 3 /\ step = 2 /\ Len(draws) = 8
    /\ Unit(initial_state) /\ initial_state.den = 2
    /\ TensorDot(system.hamiltonian, initial_state.v) # Zeros(2)
    /\ out = <<initial_state, initial_state, initial_state>>

\* C4 as stated: every row after row 0 has L2 norm 1.
C4_UnitNorm == \A r \in Rows : r >= 2 => Unit(out[r])

\* C4 amended: after every completed macro-step the state is divided by its
\* norm once: it has L2 norm 1 when the integrated state is a nonzero vector
\* and is NaN in every entry when the integrated state is zero (or NaN); so
\* every row after row 0 has L2 norm 1 or is NaN.  Between micro-steps nothing
\* is renormalized.
C4_Renormalized ==
    /\ \A r \in Rows : r >= 2 => (Unit(out[r]) \/ out[r].nan)
    /\ (pc \in {"solve", "done"} /\ step_n > 1) =>
          /\ ~ZeroOrNaN(int_out) => (Unit(current) /\ current.v = int_out.v)
          /\ ZeroOrNaN(int_out) => current.nan
    /\ (pc = "integrate" /\ last # NoStep /\ int_n >= 1) =>
          int_out = MkState(last.result, last.state)

C4_Witness ==
    /\ pc = "done" /\ n = 3 /\ dt # 0 /\ micro >= 2 /\ Len(draws) >= 2
    /\ ~Unit(int_out) /\ ~ZeroOrNaN(int_out)
    /\ Unit(out[2]) /\ Unit(out[3]) /\ out[2] # out[3]

\* C8 as stated: one micro-step returns psi + coherent + stochastic.
C8_StepAddsState ==
    last # NoStep =>
        last.result = VAdd(Scaled(last.state), VAdd(last.coherent, last.stochastic))

\* C8 amended: one micro-step returns coherent + stochastic, where coherent
\* is -i dt H psi and stochastic is off_diagonal + (diagonal_amplitude + 1) psi,
\* which already holds psi once.
C8_StepIsCoherentPlusStochastic ==
    last # NoStep =>
        /\ last.coherent =
              VScale(TensorDot(system.hamiltonian, Scaled(last.state)), <<0, -dt>>)
        /\ last.stochastic =
              VAdd(last.euler.off_diagonal,
                   VAdd(VScale(last.state.v, last.euler.diagonal_amplitude),
                        Scaled(last.state)))
        /\ last.result = VAdd(last.coherent, last.stochastic)

C8_Witness ==
    /\ last # NoStep /\ dt # 0 /\ ~last.state.nan
    /\ last.coherent # Zeros(Dim(last.state))
    /\ last.euler.off_diagonal # Zeros(Dim(last.state))
    /\ last.euler.diagonal_amplitude # CZero
    /\ last.result # Zeros(Dim(last.state))

\* C9: integrate runs exactly `step` micro-steps per macro-step, (n-1)*step
\* in all; in every micro-step each of the k sources takes one sample, in
\* ensemble order, so the run takes (n-1)*step*k samples ordered by micro-step
\* and then by source.
C9_DrawOrder ==
    LET k == Len(system.noise)
    IN /\ \A j \in 1..Len(draws) :
             draws[j] = [micro |-> (j - 1) \div k, source |-> ((j - 1) % k) + 1]
       /\ pc = "solve" => (micro = (step_n - 1) * step /\ Len(draws) = micro * k)
       /\ (pc = "done" /\ n >= 1) =>
             (micro = (n - 1) * step /\ Len(draws) = (n - 1) * step * k)

C9_Witness ==
    /\ pc = "done" /\ n = 3 /\ step = 2 /\ Len(system.noise) = 2 /\ dt # 0
    /\ Len(draws) = 8 /\ draws[8] = [micro |-> 3, source |-> 2]
    /\ out[3] # out[2]

\* C10: solve with n = 0 returns one row, the initial state, without any
\* micro-step or renormalization, as with n = 1: max(n, 1) rows are returned.
C10_ZeroRows ==
    pc = "done" =>
        /\ Len(out) = (IF n >= 1 THEN n ELSE 1)
        /\ n = 0 => /\ out = <<initial_state>>
                    /\ current = initial_state
                    /\ integrations = 0 /\ micro = 0 /\ draws = <<>>

C10_Witness ==
    /\ pc = "done" /\ n = 0 /\ step > 0 /\ dt # 0 /\ Len(system.noise) > 0
    /\ ~Unit(initial_state) /\ out = <<initial_state>>

\* ------------------------------------------------- noise ensembles: checks
\* the solver's variables while no solve call runs
solver == <<initial_state, system, n, step, dt, pc, out, current, current_t, step_n,
            int_out, int_t, int_n, coherent, euler, src, integrations, micro, draws, last>>

SolverIdle ==
    /\ initial_state = NaNVec(0)
    /\ system = [hamiltonian |-> Dense(<<>>), noise |-> <<>>]
    /\ n = 0 /\ step = 0 /\ dt = 0
    /\ pc = "idle"
    /\ out = <<>> /\ current = NaNVec(0) /\ current_t = 0 /\ step_n = 1
    /\ int_out = NaNVec(0) /\ int_t = 0 /\ int_n = 0
    /\ coherent = <<>> /\ euler = EulerStepZero(0) /\ src = 0
    /\ integrations = 0 /\ micro = 0 /\ draws = <<>> /\ last = NoStep

Amplitudes == {CI, <<1, 1>>}

BraKetRows == {<<CZero, COne>>, <<COne, CI>>}

\* tests::compute_outer_product(ket, bra), times the amplitude
OuterProduct(amp, a, b) ==
    [i \in 1..Len(a) |-> [j \in 1..Len(b) |-> CMul(amp, CMul(a[i], b[j]))]]

\* the dense stack of the factorized ensemble's operators
\* (tests::test_diagonal_full_equivalent)
FullOperators(noise) ==
    [k \in 1..Len(noise) |->
        OuterProduct(noise[k].operator.amplitude, noise[k].operator.ket,
                     noise[k].operator.bra)]

\* arguments of from_bra_ket (the three counts chosen independently), a
\* state and a time step
InitNoise ==
    /\ SolverIdle
    /\ op_pc = "construct"
    /\ op_in \in [amplitudes : SeqsUpTo(Amplitudes, MaxSources),
                  bra : SeqsUpTo(BraKetRows, MaxSources),
                  ket : SeqsUpTo(BraKetRows, MaxSources),
                  state : {StateVec(<<COne, COne>>, 1, 1), StateVec(<<COne, CI>>, 1, 2)},
                  dt : DtSet]
    /\ op_res = <<>>

\* FullNoise::from_bra_ket returns Self: it has no failing path
Construct ==
    /\ op_pc = "construct"
    /\ LET noise == from_bra_ket(op_in.amplitudes, op_in.bra, op_in.ket)
       IN op_res' = [outcome |-> "ok", diagonal |-> noise,
                     full |-> from_operators(FullOperators(noise)),
                     diagonal_result |-> <<>>, full_result |-> <<>>]
    /\ op_pc' = "built"
    /\ UNCHANGED <<solver, op_in>>

\* Noise::euler_step of both ensembles on the same state with the same samples
EulerSteps ==
    /\ op_pc = "built"
    /\ \E zs \in [1..Len(op_res.diagonal) -> DrawSet] :
          op_res' = [op_res EXCEPT
                       !.diagonal_result =
                           euler_step(op_res.diagonal, op_in.state, op_in.dt, zs),
                       !.full_result =
                           euler_step(op_res.full, op_in.state, op_in.dt, zs)]
    /\ op_pc' = "stepped"
    /\ UNCHANGED <<solver, op_in>>

NextNoise ==
    \/ Construct
    \/ EulerSteps

SpecNoise == InitNoise /\ [][NextNoise]_vars

CountsDiffer(in) ==
    \/ Len(in.amplitudes) # Len(in.bra)
    \/ Len(in.bra) # Len(in.ket)

\* C7: from_bra_ket given different counts of amplitudes, bra rows and ket
\* rows fails at construction and yields no ensemble.
C7_MismatchFailsAtConstruction ==
    (op_pc \in {"built", "stepped"} /\ CountsDiffer(op_in)) => op_res.outcome = "error"

\* -------------------------------------------------- banded matrices: checks
Entries == {CZero, COne, CI}

Shapes == {<<1, 2>>, <<2, 2>>, <<2, 3>>, <<3, 2>>}

Matrices(shape) == [1..shape[1] -> [1..shape[2] -> Entries]]

Vectors(d) == [1..d -> Entries]

\* a dense matrix, a vector for it and a vector for its transpose
InitBanded ==
    /\ SolverIdle
    /\ op_pc = "from_dense"
    /\ \E shape \in Shapes :
          op_in \in [full : Matrices(shape), state : Vectors(shape[2]),
                     state_t : {[i \in 1..shape[1] |-> IF i = 1 THEN CI ELSE COne]}]
    /\ op_res = <<>>

FromDense ==
    /\ op_pc = "from_dense"
    /\ op_res' = [banded |-> BandedFromDense(op_in.full)]
    /\ op_pc' = "dot"
    /\ UNCHANGED <<solver, op_in>>

\* tests::test_banded_dot_product and test_banded_transposed_dot_product
DotProducts ==
    /\ op_pc = "dot"
    /\ op_res' = [banded |-> op_res.banded,
                  expected |-> MatVec(op_in.full, op_in.state),
                  actual |-> TensorDot(op_res.banded, op_in.state),
                  expected_t |-> MatVec(Transpose(op_in.full), op_in.state_t),
                  actual_t |-> TensorDot(BandedTranspose(op_res.banded), op_in.state_t)]
    /\ op_pc' = "checked"
    /\ UNCHANGED <<solver, op_in>>

NextBanded ==
    \/ FromDense
    \/ DotProducts

SpecBanded == InitBanded /\ [][NextBanded]_vars

\* C6: for a dense matrix M, square or not, from_dense(M).dot(v) equals M v
\* and from_dense(M).transpose().dot(v) equals the transpose of M times v,
\* each with the length of the dense product.
C6_BandedEqualsDense ==
    op_pc = "checked" =>
        /\ op_res.actual = op_res.expected
        /\ Len(op_res.actual) = Len(op_in.full)
        /\ op_res.actual_t = op_res.expected_t
        /\ Len(op_res.actual_t) = NCols(op_in.full)

C6_Witness ==
    /\ op_pc = "checked" /\ Len(op_in.full) = 2 /\ NCols(op_in.full) = 3
    /\ Len(op_res.banded.offsets) = 2
    /\ op_res.actual = op_res.expected /\ op_res.actual # Zeros(2)
    /\ op_res.actual_t = op_res.expected_t /\ op_res.actual_t # Zeros(3)
    /\ op_res.actual[1] # op_res.actual[2]

====
